---- MODULE Spec2Model ----
\* A model of SimpleSignal.h: the two signal classes of namespace signals,
\* Signal (callbacks in a std::map keyed by callback_id) and PrioritySignal
\* (callbacks in a std::list kept sorted by descending priority).
\*
\* One behaviour follows one instance, of the class that inst names, through
\* the calls its owner makes: add, remove, removeAll and dispatch. Under Spec
\* the callbacks return normally and do not call back into the instance, so
\* every call runs to completion before the next one starts. SpecThrow and
\* SpecCallbacks follow the loop of dispatch one callback at a time: under
\* SpecThrow a callback returns or throws, under SpecCallbacks it may also
\* call add or remove on the instance it was called by.
EXTENDS Integers, Sequences, FiniteSets, TLC

\* ------------------------------------------------------------------ bounds

\* add() calls made on the instance during one behaviour.
MaxAdds == 5

\* add() calls made during one behaviour of SpecThrow or SpecCallbacks.
MaxStepAdds == 3

\* The priorities handed to PrioritySignal::add() under those two.
StepPriorities == {1, 5}

\* The callables handed to Signal::add().
Callables == {"cb1", "cb2"}

\* The function pointers handed to PrioritySignal::add(). One is enough there:
\* the entries differ by identifier and priority.
PriorityCallables == {"fn1"}

\* The priorities handed to PrioritySignal::add().
Priorities == {1, 5, 7, 10}

\* The argument values handed to dispatch().
Args == {7, 42}

\* --------------------------------------------------------------- the int type

\* callback_id is int (line 44), and so are both callbackId members.
IntMax == 2147483647

IntMin == -IntMax - 1

\* Signal::Signal() : callbackId(0)
SignalCtorCallbackId == 0

\* PrioritySignal declares no constructor and its callbackId member has no
\* initializer: a default-initialized instance reads an indeterminate int in
\* its first add(). These are the values the model lets that read produce.
IndeterminateInts == {-1, 0, IntMax - 1}

\* `++callbackId` as the initializer of newId: the counter after the step and
\* the value of the expression. Incrementing INT_MAX is signed overflow,
\* undefined behaviour: the build either wraps to INT_MIN or traps.
\* The variant `callbackId++`: the expression yields the value before the step.
PostIncrement(c) ==
    IF c = IntMax
    THEN {[trap |-> FALSE, counter |-> IntMin, value |-> c],
          [trap |-> TRUE, counter |-> c, value |-> c]}
    ELSE {[trap |-> FALSE, counter |-> c + 1, value |-> c]}

PreIncrement(c) ==
    IF c = IntMax
    THEN {[trap |-> FALSE, counter |-> IntMin, value |-> IntMin],
          [trap |-> TRUE, counter |-> c, value |-> c]}
    ELSE {[trap |-> FALSE, counter |-> c + 1, value |-> c + 1]}

\* ------------------------------------------------------------------- state

VARIABLES
    inst,          \* "Signal" or "PrioritySignal": the class of the instance
    callbackId,    \* the int member callbackId of the instance
    callbackMap,   \* Signal::callbackMap: a function callback_id -> callable
    callbackList,  \* PrioritySignal::callbackList: a sequence of entries
    pc,            \* "idle"; "aborted" once an overflow has trapped; inside
                   \* dispatch "loop" (at the loop test), "advance" (the
                   \* callback is back, ++it is next) or "crashed"
    call,          \* the call made last: its name, its id and its argument
    returned,      \* the identifiers returned by add, in the order of the calls
    removed,       \* the registered identifiers that remove was called with
    sinceClear,    \* removeAll was called and add was not called since
    invoked,       \* the callback invocations made by the call made last
    cursor,        \* the iterator of the range-for of dispatch
    staleNext,     \* where the link of an erased entry still leads
    thrown,        \* exceptions the call made last has let out to its caller
    snapshot       \* what the instance held when the dispatch made last began

vars == <<inst, callbackId, callbackMap, callbackList, pc, call, returned,
          removed, sinceClear, invoked, cursor, staleNext, thrown, snapshot>>

\* ----------------------------------------------------------------- helpers

Range(s) == {s[i] : i \in DOMAIN s}

Min(S) == CHOOSE x \in S : \A y \in S : x <= y

EmptyMap == [k \in {} |-> "cb1"]

\* The record of one call of a listener: the entry it belongs to (by its
\* identifier), the callable invoked and the argument passed.
Invocation(id, cb, arg) == [id |-> id, cb |-> cb, arg |-> arg]

Call(op, id, arg) == [op |-> op, id |-> id, arg |-> arg]

\* The storage and the history as a dispatch finds them when it begins.
Snapshot(m, l, r, rm) == [map |-> m, list |-> l, returned |-> r, removed |-> rm]

NoSnapshot == Snapshot(EmptyMap, <<>>, <<>>, {})

\* Outside dispatch there is no loop: no iterator, nothing thrown.
NoLoop ==
    /\ cursor' = <<>>
    /\ staleNext' = <<>>
    /\ thrown' = 0
    /\ snapshot' = NoSnapshot

\* ------------------------------------------------------------ Signal (map)

\* The variant of insert that skips a callable the map holds already.
MapInsertOnce(m, k, cb) ==
    IF k \in DOMAIN m \/ \E x \in DOMAIN m : m[x] = cb
    THEN m
    ELSE [x \in DOMAIN m \cup {k} |-> IF x = k THEN cb ELSE m[x]]

\* std::map::insert: adds the pair unless the key is present already.
MapInsert(m, k, cb) ==
    IF k \in DOMAIN m
    THEN m
    ELSE [x \in DOMAIN m \cup {k} |-> IF x = k THEN cb ELSE m[x]]

\* Variants of erase: one that erases nothing, and one that erases at
\* lower_bound(key), the first entry whose key is not below the one given.
MapEraseNothing(m, k) == m

MapEraseLowerBound(m, k) ==
    LET ge == {x \in DOMAIN m : x >= k}
    IN  IF ge = {} THEN m ELSE [x \in DOMAIN m \ {Min(ge)} |-> m[x]]

\* std::map::erase(key): removes the entry with that key, if there is one.
MapErase(m, k) == [x \in DOMAIN m \ {k} |-> m[x]]

\* The variant of clear that leaves the entries in place.
MapKeepAll(m) == m

\* The variant of clear that erases the first entry only.
MapClearFirst(m) ==
    IF DOMAIN m = {} THEN m ELSE [x \in DOMAIN m \ {Min(DOMAIN m)} |-> m[x]]

\* std::map::clear
MapClear(m) == EmptyMap

\* The variant of begin() that starts at the entry with the greatest key.
MapBeginLast(m) ==
    IF DOMAIN m = {}
    THEN <<>>
    ELSE <<CHOOSE x \in DOMAIN m : \A y \in DOMAIN m : y <= x>>

\* An iterator of the map is <<key>>, and <<>> is end().
MapBegin(m) == IF DOMAIN m = {} THEN <<>> ELSE <<Min(DOMAIN m)>>

\* The variant of ++it that steps over the entry with the adjacent key.
MapNextSkip(m, k) ==
    LET later == {x \in DOMAIN m : x > k + 1}
    IN  IF later = {} THEN <<>> ELSE <<Min(later)>>

\* ++it on a std::map iterator: the entry with the next greater key.
MapNext(m, k) ==
    LET later == {x \in DOMAIN m : x > k}
    IN  IF later = {} THEN <<>> ELSE <<Min(later)>>

\* The range-for of Signal::dispatch from iterator it on: each entry is
\* copied and its callable invoked with the arguments of dispatch.
RECURSIVE SignalDispatchLoop(_, _, _)
SignalDispatchLoop(m, it, arg) ==
    IF it = <<>>
    THEN <<>>
    ELSE <<Invocation(it[1], m[it[1]], arg)>>
         \o SignalDispatchLoop(m, MapNext(m, it[1]), arg)

\* ---------------------------------------------------- PrioritySignal (list)

\* PrioritizedCallback(callback, priority, callbackId)
PrioritizedCallback(cb, priority, id) ==
    [priorityCallback |-> cb, priority |-> priority, callbackId |-> id]

\* The variant with the comparison turned round.
PriorityCompareAscending(a, b) == a.priority < b.priority

\* PriorityCompare: a goes before b iff a's priority is the higher one.
PriorityCompare(a, b) == a.priority > b.priority

\* The variant of the merge that takes the head of the second run whenever
\* the head of the first does not compare before it: sorted, but not stable.
RECURSIVE MergeTiesFromSecond(_, _)
MergeTiesFromSecond(x, y) ==
    IF x = <<>> THEN y
    ELSE IF y = <<>> THEN x
    ELSE IF ~PriorityCompare(Head(x), Head(y))
         THEN <<Head(y)>> \o MergeTiesFromSecond(x, Tail(y))
         ELSE <<Head(x)>> \o MergeTiesFromSecond(Tail(x), y)

\* std::list::merge of two sorted runs as list::sort uses it: the head of the
\* second run is taken only when it compares before the head of the first.
RECURSIVE MergeRuns(_, _)
MergeRuns(x, y) ==
    IF x = <<>> THEN y
    ELSE IF y = <<>> THEN x
    ELSE IF PriorityCompare(Head(y), Head(x))
         THEN <<Head(y)>> \o MergeRuns(x, Tail(y))
         ELSE <<Head(x)>> \o MergeRuns(Tail(x), y)

Merge(x, y) == MergeRuns(x, y)

\* The variant of add that does not sort.
ListLeftAsIs(l) == l

\* callbackList.sort(PriorityCompare): std::list::sort is a merge sort.
RECURSIVE ListSort(_)
ListSort(l) ==
    IF Len(l) <= 1
    THEN l
    ELSE LET h == Len(l) \div 2
         IN  Merge(ListSort(SubSeq(l, 1, h)), ListSort(SubSeq(l, h + 1, Len(l))))

\* The variant of clear that leaves the entries in place.
ListKeepAll(l) == l

\* std::list::clear
ListClear(l) == <<>>

\* The variant of the loop that, after erasing an entry, steps over the one
\* behind it as well (`i = erase(i)` followed by `++i`) and erases it too when
\* it is the last.
RECURSIVE RemoveLoopSkipping(_, _)
RemoveLoopSkipping(l, id) ==
    IF l = <<>> THEN <<>>
    ELSE IF Head(l).callbackId = id
         THEN IF Len(l) = 2 THEN <<>> ELSE RemoveLoopSkipping(Tail(l), id)
         ELSE <<Head(l)>> \o RemoveLoopSkipping(Tail(l), id)

\* The loop of PrioritySignal::remove: erases every entry whose identifier is
\* the one given and steps over the others.
RECURSIVE RemoveLoop(_, _)
RemoveLoop(l, id) ==
    IF l = <<>> THEN <<>>
    ELSE IF Head(l).callbackId = id
         THEN RemoveLoop(Tail(l), id)
         ELSE <<Head(l)>> \o RemoveLoop(Tail(l), id)

\* An iterator of the list is <<identifier of its entry>>, and <<>> is end().
ListBegin(l) == IF l = <<>> THEN <<>> ELSE <<Head(l).callbackId>>

\* The variant of ++it that steps over the entry behind the current one.
ListNextSkip(l, id) ==
    LET i == CHOOSE i \in DOMAIN l : l[i].callbackId = id
    IN  IF i + 1 >= Len(l) THEN <<>> ELSE <<l[i + 2].callbackId>>

\* ++it on a std::list iterator: the entry behind the current one.
ListNext(l, id) ==
    LET i == CHOOSE i \in DOMAIN l : l[i].callbackId = id
    IN  IF i = Len(l) THEN <<>> ELSE <<l[i + 1].callbackId>>

\* The range-for of PrioritySignal::dispatch over the rest l of the list.
RECURSIVE PriorityDispatchLoop(_, _)
PriorityDispatchLoop(l, arg) ==
    IF l = <<>>
    THEN <<>>
    ELSE <<Invocation(Head(l).callbackId, Head(l).priorityCallback, arg)>>
         \o PriorityDispatchLoop(Tail(l), arg)

\* --------------------------------------------------------- derived notions

\* The identifiers of the entries the instance holds.
RegisteredIds ==
    IF inst = "Signal"
    THEN DOMAIN callbackMap
    ELSE {callbackList[i].callbackId : i \in DOMAIN callbackList}

\* The callable stored under a registered identifier.
CallableOf(id) ==
    IF inst = "Signal"
    THEN callbackMap[id]
    ELSE LET i == CHOOSE i \in DOMAIN callbackList :
                      callbackList[i].callbackId = id
         IN  callbackList[i].priorityCallback

\* The identifiers remove() is called with: every identifier add returned
\* (registered or removed since), 0, and the one the next add would return.
RemoveArgs ==
    Range(returned) \cup {0}
    \cup {o.value : o \in {p \in PreIncrement(callbackId) : ~p.trap}}

\* -------------------------------------------------------------------- Init

Init ==
    /\ inst \in {"Signal", "PrioritySignal"}
    /\ callbackId \in (IF inst = "Signal" THEN {SignalCtorCallbackId}
                                          ELSE IndeterminateInts)
    /\ callbackMap = EmptyMap
    /\ callbackList = <<>>
    /\ pc = "idle"
    /\ call = Call("none", 0, 0)
    /\ returned = <<>>
    /\ removed = {}
    /\ sinceClear = FALSE
    /\ invoked = <<>>
    /\ cursor = <<>>
    /\ staleNext = <<>>
    /\ thrown = 0
    /\ snapshot = NoSnapshot

\* ----------------------------------------------------------------- actions

\* Signal::add(cb)
SignalAdd(cb) ==
    /\ inst = "Signal"
    /\ pc = "idle"
    /\ Len(returned) < MaxAdds
    /\ \E o \in PreIncrement(callbackId) :
          IF o.trap
          THEN /\ pc' = "aborted"
               /\ call' = Call("add", 0, 0)
               /\ invoked' = <<>>
               /\ UNCHANGED <<callbackId, callbackMap, returned, sinceClear>>
          ELSE LET newId == o.value
               IN  /\ callbackId' = o.counter
                   /\ callbackMap' = MapInsert(callbackMap, newId, cb)
                   /\ returned' = Append(returned, newId)
                   /\ call' = Call("add", newId, 0)
                   /\ sinceClear' = FALSE
                   /\ invoked' = <<>>
                   /\ pc' = pc
    /\ UNCHANGED <<inst, callbackList, removed>>
    /\ NoLoop

\* Signal::remove(cbId)
SignalRemove(cbId) ==
    /\ inst = "Signal"
    /\ pc = "idle"
    /\ callbackMap' = MapErase(callbackMap, cbId)
    /\ removed' = removed \cup ({cbId} \cap RegisteredIds)
    /\ call' = Call("remove", cbId, 0)
    /\ invoked' = <<>>
    /\ UNCHANGED <<inst, callbackId, callbackList, pc, returned, sinceClear>>
    /\ NoLoop

\* Signal::removeAll()
SignalRemoveAll ==
    /\ inst = "Signal"
    /\ pc = "idle"
    /\ callbackMap' = MapClear(callbackMap)
    /\ call' = Call("removeAll", 0, 0)
    /\ sinceClear' = TRUE
    /\ invoked' = <<>>
    /\ UNCHANGED <<inst, callbackId, callbackList, pc, returned, removed>>
    /\ NoLoop

\* Signal::dispatch(arg)
SignalDispatch(arg) ==
    /\ inst = "Signal"
    /\ pc = "idle"
    /\ invoked' = SignalDispatchLoop(callbackMap, MapBegin(callbackMap), arg)
    /\ call' = Call("dispatch", 0, arg)
    /\ UNCHANGED <<inst, callbackId, callbackMap, callbackList, pc, returned,
                   removed, sinceClear>>
    /\ NoLoop

\* PrioritySignal::add(cb, priority)
PriorityAdd(cb, priority) ==
    /\ inst = "PrioritySignal"
    /\ pc = "idle"
    /\ Len(returned) < MaxAdds
    /\ \E o \in PreIncrement(callbackId) :
          IF o.trap
          THEN /\ pc' = "aborted"
               /\ call' = Call("add", 0, 0)
               /\ invoked' = <<>>
               /\ UNCHANGED <<callbackId, callbackList, returned, sinceClear>>
          ELSE LET newId == o.value
               IN  /\ callbackId' = o.counter
                   /\ callbackList' =
                        ListSort(Append(callbackList,
                                        PrioritizedCallback(cb, priority, newId)))
                   /\ returned' = Append(returned, newId)
                   /\ call' = Call("add", newId, 0)
                   /\ sinceClear' = FALSE
                   /\ invoked' = <<>>
                   /\ pc' = pc
    /\ UNCHANGED <<inst, callbackMap, removed>>
    /\ NoLoop

\* PrioritySignal::remove(id)
PriorityRemove(id) ==
    /\ inst = "PrioritySignal"
    /\ pc = "idle"
    /\ callbackList' = RemoveLoop(callbackList, id)
    /\ removed' = removed \cup ({id} \cap RegisteredIds)
    /\ call' = Call("remove", id, 0)
    /\ invoked' = <<>>
    /\ UNCHANGED <<inst, callbackId, callbackMap, pc, returned, sinceClear>>
    /\ NoLoop

\* PrioritySignal::removeAll()
PriorityRemoveAll ==
    /\ inst = "PrioritySignal"
    /\ pc = "idle"
    /\ callbackList' = ListClear(callbackList)
    /\ call' = Call("removeAll", 0, 0)
    /\ sinceClear' = TRUE
    /\ invoked' = <<>>
    /\ UNCHANGED <<inst, callbackId, callbackMap, pc, returned, removed>>
    /\ NoLoop

\* PrioritySignal::dispatch(arg)
PriorityDispatch(arg) ==
    /\ inst = "PrioritySignal"
    /\ pc = "idle"
    /\ invoked' = PriorityDispatchLoop(callbackList, arg)
    /\ call' = Call("dispatch", 0, arg)
    /\ UNCHANGED <<inst, callbackId, callbackMap, callbackList, pc, returned,
                   removed, sinceClear>>
    /\ NoLoop

Next ==
    \/ \E cb \in Callables : SignalAdd(cb)
    \/ \E id \in RemoveArgs : SignalRemove(id)
    \/ SignalRemoveAll
    \/ \E arg \in Args : SignalDispatch(arg)
    \/ \E cb \in PriorityCallables : \E p \in Priorities : PriorityAdd(cb, p)
    \/ \E id \in RemoveArgs : PriorityRemove(id)
    \/ PriorityRemoveAll
    \/ \E arg \in Args : PriorityDispatch(arg)

Spec == Init /\ [][Next]_vars

\* ------------------------------------------- dispatch, callback by callback

\* begin() of the storage the range-for of dispatch runs over.
LoopBegin ==
    IF inst = "Signal" THEN MapBegin(callbackMap) ELSE ListBegin(callbackList)

\* ++it from the entry with identifier k, in the storage given.
LoopNext(m, l, k) ==
    IF inst = "Signal" THEN MapNext(m, k) ELSE ListNext(l, k)

\* What a callback passes to add when it calls it.
CallbackAddArgs ==
    IF inst = "Signal"
    THEN Callables \X {0}
    ELSE PriorityCallables \X StepPriorities

\* dispatch(arg) is entered: the range-for takes begin().
DispatchBegin(arg) ==
    /\ pc = "idle"
    /\ pc' = "loop"
    /\ cursor' = LoopBegin
    /\ staleNext' = <<>>
    /\ thrown' = 0
    /\ call' = Call("dispatch", 0, arg)
    /\ invoked' = <<>>
    /\ snapshot' = Snapshot(callbackMap, callbackList, returned, removed)
    /\ UNCHANGED <<inst, callbackId, callbackMap, callbackList, returned,
                   removed, sinceClear>>

\* The invocation the loop body makes: the entry under the iterator is
\* copied and its callable is called with the arguments of dispatch.
InvokeCurrent ==
    /\ pc = "loop"
    /\ cursor # <<>>
    /\ invoked' = Append(invoked,
                         Invocation(cursor[1], CallableOf(cursor[1]), call.arg))

\* The callback returns without touching the instance.
CallbackReturns ==
    /\ InvokeCurrent
    /\ pc' = "advance"
    /\ UNCHANGED <<inst, callbackId, callbackMap, callbackList, call, returned,
                   removed, sinceClear, cursor, staleNext, thrown, snapshot>>

\* The callback throws: nothing in dispatch catches, the loop is left and the
\* exception reaches the caller of dispatch.
CallbackThrows ==
    /\ InvokeCurrent
    /\ pc' = "idle"
    /\ thrown' = thrown + 1
    /\ cursor' = <<>>
    /\ UNCHANGED <<inst, callbackId, callbackMap, callbackList, call, returned,
                   removed, sinceClear, staleNext, snapshot>>

\* The callback calls add(cb, priority) on the instance and returns.
CallbackAdds(cb, priority) ==
    /\ InvokeCurrent
    /\ Len(returned) < MaxStepAdds
    /\ \E o \in PreIncrement(callbackId) :
          IF o.trap
          THEN /\ pc' = "aborted"
               /\ UNCHANGED <<callbackId, callbackMap, callbackList, returned,
                              sinceClear>>
          ELSE LET newId == o.value
               IN  /\ callbackId' = o.counter
                   /\ IF inst = "Signal"
                      THEN /\ callbackMap' = MapInsert(callbackMap, newId, cb)
                           /\ callbackList' = callbackList
                      ELSE /\ callbackList' =
                                ListSort(Append(callbackList,
                                     PrioritizedCallback(cb, priority, newId)))
                           /\ callbackMap' = callbackMap
                   /\ returned' = Append(returned, newId)
                   /\ sinceClear' = FALSE
                   /\ pc' = "advance"
    /\ UNCHANGED <<inst, call, removed, cursor, staleNext, thrown, snapshot>>

\* The callback calls remove(id) on the instance and returns. When the entry
\* erased is the one under the iterator of the loop, the iterator dangles;
\* the links of the erased entry still lead to what was behind it.
CallbackRemoves(id) ==
    /\ InvokeCurrent
    /\ IF inst = "Signal"
       THEN /\ callbackMap' = MapErase(callbackMap, id)
            /\ callbackList' = callbackList
       ELSE /\ callbackList' = RemoveLoop(callbackList, id)
            /\ callbackMap' = callbackMap
    /\ removed' = removed \cup ({id} \cap RegisteredIds)
    /\ staleNext' = IF id = cursor[1]
                    THEN LoopNext(callbackMap, callbackList, cursor[1])
                    ELSE staleNext
    /\ pc' = "advance"
    /\ UNCHANGED <<inst, callbackId, call, returned, sinceClear, cursor, thrown,
                   snapshot>>

\* ++it at the end of the loop body. On an iterator whose entry was erased
\* this is undefined behaviour: the program crashes, or it follows the links
\* the erased entry had.
LoopAdvance ==
    /\ pc = "advance"
    /\ IF cursor[1] \in RegisteredIds
       THEN /\ cursor' = LoopNext(callbackMap, callbackList, cursor[1])
            /\ pc' = "loop"
       ELSE \/ /\ cursor' = staleNext
               /\ pc' = "loop"
            \/ /\ cursor' = cursor
               /\ pc' = "crashed"
    /\ staleNext' = <<>>
    /\ UNCHANGED <<inst, callbackId, callbackMap, callbackList, call, returned,
                   removed, sinceClear, invoked, thrown, snapshot>>

\* The iterator is end(): dispatch returns.
DispatchReturn ==
    /\ pc = "loop"
    /\ cursor = <<>>
    /\ pc' = "idle"
    /\ UNCHANGED <<inst, callbackId, callbackMap, callbackList, call, returned,
                   removed, sinceClear, invoked, cursor, staleNext, thrown,
                   snapshot>>

\* The calls of the owner, and dispatch with callbacks that return or throw.
NextThrow ==
    \/ \E cb \in Callables : Len(returned) < MaxStepAdds /\ SignalAdd(cb)
    \/ \E cb \in PriorityCallables : \E p \in StepPriorities :
          Len(returned) < MaxStepAdds /\ PriorityAdd(cb, p)
    \/ \E id \in RemoveArgs : SignalRemove(id)
    \/ \E id \in RemoveArgs : PriorityRemove(id)
    \/ SignalRemoveAll
    \/ PriorityRemoveAll
    \/ \E arg \in Args : DispatchBegin(arg)
    \/ CallbackReturns
    \/ CallbackThrows
    \/ LoopAdvance
    \/ DispatchReturn

SpecThrow == Init /\ [][NextThrow]_vars

\* The same, with callbacks that call add or remove on the instance.
NextCallbacks ==
    \/ NextThrow
    \/ \E a \in CallbackAddArgs : CallbackAdds(a[1], a[2])
    \/ \E id \in Range(returned) : CallbackRemoves(id)

SpecCallbacks == Init /\ [][NextCallbacks]_vars

\* ------------------------------------------------------------------ claims

\* The position of the add call that returned id among the add calls.
AddOrder(id) == CHOOSE k \in DOMAIN returned : returned[k] = id

\* The identifiers of the invocations made by the call made last, in order.
InvokedIds == [k \in DOMAIN invoked |-> invoked[k].id]

\* The priority of the k-th added listener, 0 when it is not registered.
AddedPriority(k) ==
    LET at == {i \in DOMAIN callbackList :
                 callbackList[i].callbackId = returned[k]}
    IN  IF at = {} THEN 0 ELSE callbackList[CHOOSE i \in at : TRUE].priority

\* The listeners added so far are all registered in the PrioritySignal, and
\* were added with the priorities ps, in that order.
AddedWithPriorities(ps) ==
    /\ inst = "PrioritySignal"
    /\ Len(returned) = Len(ps)
    /\ Len(callbackList) = Len(ps)
    /\ \A k \in DOMAIN ps : AddedPriority(k) = ps[k]

\* C1: the identifiers add returns are strictly increasing in the order of
\* the add calls, in both classes, whatever calls are made in between.
C1_IdsStrictlyIncreasing ==
    \A i, j \in DOMAIN returned : i < j => returned[i] < returned[j]

\* C2: a Signal::dispatch(arg) invokes each registered listener exactly once,
\* with its own callable and with arg, and invokes nothing else; with no
\* listener registered it invokes nothing.
C2_SignalDispatchEachOnce ==
    (inst = "Signal" /\ call.op = "dispatch") =>
        /\ \A id \in DOMAIN callbackMap :
              Cardinality({k \in DOMAIN invoked : invoked[k].id = id}) = 1
        /\ \A k \in DOMAIN invoked :
              /\ invoked[k].id \in DOMAIN callbackMap
              /\ invoked[k].cb = callbackMap[invoked[k].id]
              /\ invoked[k].arg = call.arg
        /\ (DOMAIN callbackMap = {} => invoked = <<>>)

\* C2 witness: a dispatch of a Signal with three listeners registered, both
\* callables among them, has invoked three callbacks.
C2_Witness ==
    /\ inst = "Signal"
    /\ call.op = "dispatch"
    /\ Cardinality(DOMAIN callbackMap) = 3
    /\ Range(callbackMap) = Callables
    /\ Len(invoked) = 3

\* C3: a dispatch invokes no listener that remove was called for before it,
\* and invokes every listener that is registered, in both classes.
C3_RemovedNeverInvoked ==
    call.op = "dispatch" =>
        /\ \A k \in DOMAIN invoked : invoked[k].id \notin removed
        /\ \A id \in RegisteredIds : \E k \in DOMAIN invoked : invoked[k].id = id

\* C3 witness: add(cb1) returned 1, add(cb2) returned 2, remove(1) was called
\* and dispatch(42) has invoked cb2 with 42 and nothing else.
C3_Witness ==
    /\ inst = "Signal"
    /\ returned = <<1, 2>>
    /\ removed = {1}
    /\ call = Call("dispatch", 0, 42)
    /\ invoked = <<Invocation(2, "cb2", 42)>>

\* C4: a PrioritySignal::dispatch invokes each registered listener exactly
\* once, a listener of higher priority before one of lower priority and
\* listeners of equal priority in the order they were added; with the
\* priorities 5, 1, 10, 1 added the order is the 3rd, 1st, 2nd and 4th added,
\* and with 7 added after them it is the 3rd, 5th, 1st, 2nd and 4th.
C4_PriorityDispatchOrder ==
    (inst = "PrioritySignal" /\ call.op = "dispatch") =>
        /\ \A id \in RegisteredIds :
              Cardinality({k \in DOMAIN invoked : invoked[k].id = id}) = 1
        /\ \A k \in DOMAIN invoked : invoked[k].id \in RegisteredIds
        /\ \A i, j \in DOMAIN invoked :
              i < j =>
                LET a == AddOrder(invoked[i].id)
                    b == AddOrder(invoked[j].id)
                IN  \/ AddedPriority(a) > AddedPriority(b)
                    \/ AddedPriority(a) = AddedPriority(b) /\ a < b
        /\ (AddedWithPriorities(<<5, 1, 10, 1>>) =>
              InvokedIds = <<returned[3], returned[1], returned[2], returned[4]>>)
        /\ (AddedWithPriorities(<<5, 1, 10, 1, 7>>) =>
              InvokedIds = <<returned[3], returned[5], returned[1], returned[2],
                             returned[4]>>)

\* C4 witness: listeners were added with the priorities 5, 1, 10, 1 and then
\* 7, and a dispatch has invoked all five.
C4_Witness ==
    /\ AddedWithPriorities(<<5, 1, 10, 1, 7>>)
    /\ call.op = "dispatch"
    /\ Len(invoked) = 5

\* C5: the list of a PrioritySignal is sorted by descending priority: of two
\* adjacent entries the earlier has a priority not below the later's.
C5_ListSortedDescending ==
    inst = "PrioritySignal" =>
        \A i \in DOMAIN callbackList :
            i < Len(callbackList) =>
                callbackList[i].priority >= callbackList[i + 1].priority

\* C5 witness: the list holds three entries of three priorities, the one
\* added last is at its head, and an entry was removed before.
C5_Witness ==
    /\ inst = "PrioritySignal"
    /\ Len(callbackList) = 3
    /\ Cardinality({callbackList[i].priority : i \in DOMAIN callbackList}) = 3
    /\ callbackList[1].callbackId = returned[Len(returned)]
    /\ removed # {}

\* C6: entries of equal priority stand in the list of a PrioritySignal in the
\* order in which they were added.
C6_TiesInAddOrder ==
    inst = "PrioritySignal" =>
        \A i, j \in DOMAIN callbackList :
            (i < j /\ callbackList[i].priority = callbackList[j].priority) =>
                AddOrder(callbackList[i].callbackId)
                    < AddOrder(callbackList[j].callbackId)

\* C6 witness: three entries of one priority are in the list under an entry of
\* a higher priority that was added after them, so a sort has run over them.
C6_Witness ==
    /\ inst = "PrioritySignal"
    /\ Len(callbackList) = 4
    /\ callbackList[1].callbackId = returned[Len(returned)]
    /\ callbackList[1].priority > callbackList[2].priority
    /\ callbackList[2].priority = callbackList[3].priority
    /\ callbackList[3].priority = callbackList[4].priority

\* C7: a remove call whose identifier is not registered (never issued, or
\* removed already) changes neither the map, nor the list, nor the identifier
\* counter, and does not abort.
C7_RemoveAbsentIsNoOp ==
    [][(call'.op = "remove" /\ call'.id \notin RegisteredIds)
         => (/\ UNCHANGED <<callbackId, callbackMap, callbackList>>
             /\ pc' = "idle")]_vars

\* C7 witness: the call made last is a remove of an identifier that add never
\* returned, on an instance that holds two entries or more.
C7_Witness ==
    /\ call.op = "remove"
    /\ call.id \notin Range(returned)
    /\ Cardinality(RegisteredIds) >= 2

\* C8: no identifier that Signal::add returned is 0, and the first is 1.
C8_SignalIdsFromOne ==
    inst = "Signal" =>
        /\ \A k \in DOMAIN returned : returned[k] # 0
        /\ (returned # <<>> => returned[1] = 1)

\* C8 witness: a Signal whose add was called three times and that holds one
\* entry now.
C8_Witness ==
    /\ inst = "Signal"
    /\ Len(returned) = 3
    /\ Cardinality(DOMAIN callbackMap) = 1

\* C9: the first add of a PrioritySignal returns 1, the second 2, and no add
\* returns 0.
C9_PriorityIdsFromOne ==
    inst = "PrioritySignal" =>
        /\ (Len(returned) >= 1 => returned[1] = 1)
        /\ (Len(returned) >= 2 => returned[2] = 2)
        /\ \A k \in DOMAIN returned : returned[k] # 0

\* C10: a dispatch made after a removeAll, with no add between the two,
\* invokes no listener, in both classes.
C10_NothingInvokedAfterRemoveAll ==
    (call.op = "dispatch" /\ sinceClear) => invoked = <<>>

\* C10 witness: two listeners were added, none was removed one by one, a
\* removeAll followed and a dispatch after it has invoked nothing.
C10_Witness ==
    /\ call.op = "dispatch"
    /\ sinceClear
    /\ Len(returned) = 2
    /\ removed = {}
    /\ invoked = <<>>

\* The list l without the entries whose identifier is id.
ListWithout(l, id) ==
    LET Other(e) == e.callbackId # id IN SelectSeq(l, Other)

\* C11: every add returns the identifier the add before it returned, plus 1,
\* whatever remove and removeAll calls lie between the two; and no remove or
\* removeAll call changes the identifier counter.
C11_AddReturnsPreviousPlusOne ==
    /\ [](\A k \in DOMAIN returned :
            k > 1 => /\ returned[k - 1] < IntMax
                     /\ returned[k] = returned[k - 1] + 1)
    /\ [][call'.op \in {"remove", "removeAll"} => callbackId' = callbackId]_vars

\* C15: no two entries of an instance have the same identifier, and a remove
\* call with a registered identifier erases the entry with that identifier
\* and nothing else: the other entries stay, in the list in the same order.
C15_RemoveErasesExactlyOne ==
    /\ [](\A i, j \in DOMAIN callbackList :
            i # j => callbackList[i].callbackId # callbackList[j].callbackId)
    /\ [][(call'.op = "remove" /\ call'.id \in RegisteredIds)
            => /\ RegisteredIds' = RegisteredIds \ {call'.id}
               /\ \A id \in RegisteredIds' : CallableOf(id)' = CallableOf(id)
               /\ callbackList' = ListWithout(callbackList, call'.id)
               /\ Len(callbackList') = Len(callbackList)
                    - (IF inst = "PrioritySignal" THEN 1 ELSE 0)]_vars

\* C15 witness: a PrioritySignal of which remove has erased one entry between
\* two others of the same priority, the call made last.
C15_Witness ==
    /\ inst = "PrioritySignal"
    /\ call.op = "remove"
    /\ removed = {call.id}
    /\ Len(returned) = 3
    /\ returned[2] = call.id
    /\ Len(callbackList) = 2
    /\ callbackList[1].priority = callbackList[2].priority

\* C16: an add call makes one more entry under an identifier no entry has,
\* also when the callable is registered already; a dispatch invokes a
\* callable as many times as there are entries that hold it.
C16_NoDeduplication ==
    /\ [](call.op = "dispatch" =>
            \A cb \in Callables \cup PriorityCallables :
                Cardinality({k \in DOMAIN invoked : invoked[k].cb = cb})
                  = Cardinality({id \in RegisteredIds : CallableOf(id) = cb}))
    /\ [][(call'.op = "add" /\ pc' = "idle")
            => /\ call'.id \notin RegisteredIds
               /\ RegisteredIds' = RegisteredIds \cup {call'.id}]_vars

\* C16 witness: cb1 was added to a Signal three times, one of the three
\* entries was removed, and a dispatch has invoked cb1 twice.
C16_Witness ==
    /\ inst = "Signal"
    /\ Len(returned) = 3
    /\ Cardinality(removed) = 1
    /\ Cardinality(DOMAIN callbackMap) = 2
    /\ Range(callbackMap) = {"cb1"}
    /\ call.op = "dispatch"
    /\ Len(invoked) = 2
    /\ \A k \in DOMAIN invoked : invoked[k].cb = "cb1"

\* C17: a removeAll call leaves no entry and the identifier counter as it
\* was; made on an instance without entries, and so also right after another
\* removeAll, it changes nothing.
C17_RemoveAllIdempotent ==
    [][call'.op = "removeAll"
         => /\ RegisteredIds' = {}
            /\ callbackMap' = EmptyMap
            /\ callbackList' = <<>>
            /\ callbackId' = callbackId
            /\ pc' = "idle"
            /\ (RegisteredIds = {} \/ call.op = "removeAll")
                 => UNCHANGED <<callbackId, callbackMap, callbackList>>]_vars

\* C17 witness: after three adds the call made last is a removeAll, and the
\* instance holds no entry.
C17_Witness ==
    /\ call.op = "removeAll"
    /\ Len(returned) = 3
    /\ removed = {}
    /\ RegisteredIds = {}

\* C18: a Signal::dispatch invokes all registered listeners in ascending
\* order of their identifiers, which is the order of their add calls; a
\* dispatch that follows another directly makes the same invocations in the
\* same order.
C18_SignalDispatchInIdOrder ==
    /\ []((inst = "Signal" /\ call.op = "dispatch") =>
            /\ {invoked[k].id : k \in DOMAIN invoked} = DOMAIN callbackMap
            /\ \A i, j \in DOMAIN invoked :
                  i < j => /\ invoked[i].id < invoked[j].id
                           /\ AddOrder(invoked[i].id) < AddOrder(invoked[j].id))
    /\ [][(call.op = "dispatch" /\ call'.op = "dispatch")
            => InvokedIds' = InvokedIds]_vars

\* C18 witness: a dispatch of a Signal has invoked three listeners, and an
\* identifier between theirs was removed before.
C18_Witness ==
    /\ inst = "Signal"
    /\ call.op = "dispatch"
    /\ Len(invoked) = 3
    /\ \E id \in removed : invoked[1].id < id /\ id < invoked[3].id

\* C20: an add call made when the identifier counter is INT_MAX does not
\* return an identifier: the program stops with a fatal error.
C20_OverflowIsFatal ==
    [][(callbackId = IntMax /\ call'.op = "add") => pc' = "aborted"]_vars

\* The identifiers registered when the dispatch made last began.
SnapshotIds ==
    IF inst = "Signal"
    THEN DOMAIN snapshot.map
    ELSE {snapshot.list[i].callbackId : i \in DOMAIN snapshot.list}

\* The identifiers add has returned since the dispatch made last began, and
\* those that remove has erased since.
AddedSinceBegin ==
    {returned[k] : k \in (DOMAIN returned) \ (DOMAIN snapshot.returned)}

RemovedSinceBegin == removed \ snapshot.removed

\* The dispatch made last has returned to its caller without an exception.
DispatchReturned == call.op = "dispatch" /\ pc = "idle" /\ thrown = 0

\* The invocations made are those of the first entries of the storage, in
\* the order of the storage: ascending keys in the map, positions in the list.
InvokedIsPrefixOfStorage ==
    IF inst = "Signal"
    THEN /\ \A i, j \in DOMAIN invoked : i < j => invoked[i].id < invoked[j].id
         /\ {invoked[k].id : k \in DOMAIN invoked} =
               {id \in DOMAIN callbackMap : id <= invoked[Len(invoked)].id}
    ELSE /\ Len(invoked) <= Len(callbackList)
         /\ \A k \in DOMAIN invoked : invoked[k].id = callbackList[k].callbackId

\* C12: a dispatch that has returned has invoked exactly the listeners that
\* were registered when it began, each once, whatever add and remove calls
\* its callbacks made: none that a callback added, and every one that a
\* callback removed before its turn.
C12_DispatchInvokesSnapshot ==
    DispatchReturned =>
        /\ \A id \in SnapshotIds :
              Cardinality({k \in DOMAIN invoked : invoked[k].id = id}) = 1
        /\ \A k \in DOMAIN invoked : invoked[k].id \in SnapshotIds

\* C13: with callbacks that call add and remove, the loop of dispatch never
\* crashes, its iterator refers to a stored entry whenever it is advanced,
\* and when dispatch has returned the instance holds what it held at the
\* start, plus what the callbacks added, minus what they removed.
C13_LoopIteratorStaysValid ==
    /\ pc # "crashed"
    /\ (pc = "advance" => cursor[1] \in RegisteredIds)
    /\ (DispatchReturned =>
          RegisteredIds = (SnapshotIds \cup AddedSinceBegin) \ RemovedSinceBegin)

\* C14: when a callback throws, dispatch lets the exception out once, the
\* listeners before the failing one in the order of dispatch were invoked
\* once each, the failing one is the last invoked, and the storage is as it
\* was when dispatch began.
C14_ThrowAbortsDispatch ==
    /\ thrown <= 1
    /\ (thrown = 1 =>
          /\ call.op = "dispatch"
          /\ pc = "idle"
          /\ invoked # <<>>
          /\ InvokedIsPrefixOfStorage
          /\ callbackMap = snapshot.map
          /\ callbackList = snapshot.list)

\* C14 witness: of three registered listeners the second has thrown: two
\* were invoked, the third was not.
C14_Witness ==
    /\ inst = "PrioritySignal"
    /\ thrown = 1
    /\ Len(callbackList) = 3
    /\ Len(invoked) = 2
    /\ invoked[2].id = callbackList[2].callbackId

\* C19, as a bound that a run of finite length can break: a dispatch makes
\* no more invocations than there were listeners when it began, so that no
\* add made by a callback prolongs the loop that is running.
C19_DispatchBoundedBySnapshot ==
    (call.op = "dispatch" /\ pc \in {"loop", "advance", "idle"}) =>
        Len(invoked) <= Cardinality(SnapshotIds)

====
